---- MODULE Spec2Model ----
(***************************************************************************)
(* Usage metering of the quiz server: the users collection, the quizzes    *)
(* and mock_tests collections, and the request handlers that read and      *)
(* write them.  A handler runs atomically from one await to the next; the  *)
(* store call it awaits takes effect at the start of the following step.   *)
(* Handlers of different requests interleave at their awaits.              *)
(*                                                                         *)
(* src/unnamed/part_000 lines 120-543 are line for line the code of        *)
(* src/unnamed/part_001 lines 68-491: the kinds "create_content" and       *)
(* "upload_pdf" are the handlers of both files, "create_content_server" is *)
(* the handler of src/server.js.                                           *)
(* Time is counted in calendar months.                                     *)
(***************************************************************************)
EXTENDS Integers, FiniteSets, Sequences, TLC

\* ------------------------------------------------------------------ bounds
MaxTime == 2

\* -------------------------------------------------------------- constants
InitialFreeGenerations == 10
MonthlyMonths == 1
QuarterlyMonths == 3
YearlyYears == 1

\* two requests in flight, the concurrency the races of this code need
Requests == {1, 2}
Users == {"u1"}
Plans == {"monthly", "quarterly", "yearly"}
PlanInputs == Plans \cup {"weekly"}
QuizIds == {"q1", "q2"}

GatedKinds == {"create_content", "upload_pdf", "mock_test"}
GenerationKinds == GatedKinds \cup {"create_content_server"}

\* ------------------------------------------------------- the users records
\* A document of the users collection.  subscription_expiry is {} for null
\* and {t} for the timestamp t; user_id is "" when the field is not stored.
AbsentDoc ==
    [exists |-> FALSE, user_id |-> "", free_generations_remaining |-> 0,
     subscription_status |-> "free", subscription_expiry |-> {}, created_at |-> 0]

NewUserDocExtra(userId, t) ==
    [exists |-> TRUE, user_id |-> userId,
     free_generations_remaining |-> InitialFreeGenerations + 1,
     subscription_status |-> "free", subscription_expiry |-> {}, created_at |-> t]

NewUserDocZero(userId, t) ==
    [exists |-> TRUE, user_id |-> userId, free_generations_remaining |-> 0,
     subscription_status |-> "free", subscription_expiry |-> {}, created_at |-> t]

\* setDoc of checkUserUsage and of the subscription GET for a new user
NewUserDoc(userId, t) ==
    [exists |-> TRUE, user_id |-> userId,
     free_generations_remaining |-> InitialFreeGenerations,
     subscription_status |-> "free", subscription_expiry |-> {}, created_at |-> t]

\* setDoc of subscribe for a new user
NewSubscriberDoc(plan, expiry, t) ==
    [exists |-> TRUE, user_id |-> "", free_generations_remaining |-> 0,
     subscription_status |-> plan, subscription_expiry |-> expiry, created_at |-> t]

\* updateDoc(userRef, {subscription_status: 'free', subscription_expiry: null})
RevertToFreeKeepExpiry(d) == [d EXCEPT !.subscription_status = "free"]

RevertToFree(d) ==
    [d EXCEPT !.subscription_status = "free", !.subscription_expiry = {}]

\* updateDoc(userRef, {subscription_status: plan, subscription_expiry: expiry})
SetSubscriptionResetFree(d, plan, expiry) ==
    [d EXCEPT !.subscription_status = plan, !.subscription_expiry = expiry,
              !.free_generations_remaining = 0]

SetSubscriptionKeepLater(d, plan, expiry) ==
    LET all == d.subscription_expiry \cup expiry
    IN [d EXCEPT !.subscription_status = plan,
                 !.subscription_expiry = {CHOOSE x \in all : \A y \in all : y <= x}]

SetSubscription(d, plan, expiry) ==
    [d EXCEPT !.subscription_status = plan, !.subscription_expiry = expiry]

\* updateDoc(userRef, {free_generations_remaining: n})
SetFree(d, n) == [d EXCEPT !.free_generations_remaining = n]

\* userData.subscription_expiry && userData.subscription_expiry.toDate() > new Date()
ExpiryInFutureOrNow(d, t) ==
    d.subscription_expiry # {} /\ \A e \in d.subscription_expiry : e >= t

ExpiryInFuture(d, t) ==
    d.subscription_expiry # {} /\ \A e \in d.subscription_expiry : e > t

\* userData.subscription_expiry && userData.subscription_expiry.toDate() < new Date()
ExpiryLongPast(d, t) ==
    d.subscription_expiry # {} /\ \A e \in d.subscription_expiry : e + 1 < t

ExpiryInPast(d, t) ==
    d.subscription_expiry # {} /\ \A e \in d.subscription_expiry : e < t

\* the switch on plan of POST /api/user/subscribe
PlanMonths(plan) ==
    CASE plan = "monthly" -> MonthlyMonths
      [] plan = "quarterly" -> QuarterlyMonths
      [] plan = "yearly" -> 12 * YearlyYears
      [] OTHER -> 0

\* ------------------------------------------------------- usage decisions
NoUsage == [checked |-> FALSE, canGenerate |-> FALSE, remainingFree |-> 0,
            subscriptionStatus |-> ""]

Usage(can, rem, status) ==
    [checked |-> TRUE, canGenerate |-> can, remainingFree |-> rem,
     subscriptionStatus |-> status]

\* checkUserUsage, "For free users, check remaining generations"
FreeTierUsageNoLimit(d) == Usage(TRUE, d.free_generations_remaining, "free")

FreeTierUsage(d) ==
    IF d.free_generations_remaining > 0
    THEN Usage(TRUE, d.free_generations_remaining, "free")
    ELSE Usage(FALSE, 0, "free")

SubscriberUsageAsFree(d) == Usage(TRUE, d.free_generations_remaining, "free")

\* checkUserUsage, the return for an active subscription
SubscriberUsage(d) == Usage(TRUE, 0, d.subscription_status)

\* ------------------------------------------------------------- variables
VARIABLES
    users,       \* users collection: user id -> document
    quizzes,     \* quizzes collection: set of documents
    mock_tests,  \* mock_tests collection: set of documents
    files,       \* uploads directory: set of files
    now,         \* new Date() / Timestamp.now()
    req,         \* the requests: request id -> handler state
    hist,        \* history: per user, whether the record has been an active
                 \* subscription in every state so far, and its counter then
    cal,         \* subscribe's expiry computation on calendar dates: the call
                 \* date, the plan and the expiry date computed
    granted      \* history: the number of 201 answers among the requests whose
                 \* connection has been closed

vars == <<users, quizzes, mock_tests, files, now, req, hist, cal, granted>>

NoContent == [questions |-> "none", flashcards |-> "none"]
NoBody == [subscription_status |-> "", remaining_free |-> 0,
           free_generations_remaining |-> 0, subscription_expiry |-> {},
           id |-> ""]

IdleRequest ==
    [pc |-> "idle", kind |-> "none", user |-> "", snap |-> AbsentDoc,
     usage |-> NoUsage, plan |-> "", expiryDate |-> {}, content |-> NoContent,
     quizId |-> "", status |-> 0, body |-> NoBody,
     genCalls |-> 0, genFailed |-> FALSE, malformed |-> FALSE,
     validated |-> FALSE, saved |-> FALSE,
     writes |-> {}]


\* ------------------------------------------------------- calendar dates
\* A Date in local time: month is 0..11 as getMonth returns it, day is the day
\* of the month, hour is the time of day.
NoDate == [year |-> 0, month |-> 0, day |-> 0, hour |-> 0]

IsLeapYear(y) == y % 4 = 0 /\ (y % 100 # 0 \/ y % 400 = 0)

DaysInMonth(y, m) ==
    CASE m = 1 -> IF IsLeapYear(y) THEN 29 ELSE 28
      [] m \in {3, 5, 8, 10} -> 30
      [] OTHER -> 31

MakeDateClamped(y, m, d, h) ==
    LET y1 == y + (m \div 12)
        m1 == m % 12
    IN [year |-> y1, month |-> m1,
        day |-> IF d > DaysInMonth(y1, m1) THEN DaysInMonth(y1, m1) ELSE d,
        hour |-> h]

\* The date a Date holds after its year, month or day was set: a month past
\* December carries into the year, a day past the end of the month carries
\* into the next month.
RECURSIVE MakeDate(_, _, _, _)
MakeDate(y, m, d, h) ==
    LET y1 == y + (m \div 12)
        m1 == m % 12
    IN IF d > DaysInMonth(y1, m1)
       THEN MakeDate(y1, m1 + 1, d - DaysInMonth(y1, m1), h)
       ELSE [year |-> y1, month |-> m1, day |-> d, hour |-> h]

\* expiryDate.setMonth(month)
setMonth(date, month) == MakeDate(date.year, month, date.day, date.hour)

\* expiryDate.setFullYear(year)
setFullYear(date, year) == MakeDate(year, date.month, date.day, date.hour)

\* "let expiryDate = new Date()" and the switch on plan of subscribe
ExpiryDate(date, plan) ==
    CASE plan = "monthly" -> setMonth(date, date.month + MonthlyMonths)
      [] plan = "quarterly" -> setMonth(date, date.month + QuarterlyMonths)
      [] plan = "yearly" -> setFullYear(date, date.year + YearlyYears)

NoCal == [pc |-> "none", date |-> NoDate, plan |-> "", expiry |-> NoDate]

\* --------------------------------------------------------------- history
ActiveSubscription(d, t) ==
    d.exists /\ d.subscription_status # "free" /\ ExpiryInFuture(d, t)

HistNext(us, t) ==
    [u \in Users |->
        LET a == hist[u].active /\ ActiveSubscription(us[u], t)
        IN [active |-> a, free |-> IF a THEN hist[u].free ELSE 0]]

\* ------------------------------------------------------------------ Init
\* The store is durable: a run starts on records that earlier requests left.
\* Absent; free with 10, 1 or 0 generations left; a monthly subscription
\* that is active until month 2; a yearly subscription, made at first contact,
\* that lapsed in month 0.
InitDocs(u) ==
    { AbsentDoc,
      NewUserDoc(u, 0),
      SetFree(NewUserDoc(u, 0), 1),
      SetFree(NewUserDoc(u, 0), 0),
      SetSubscription(SetFree(NewUserDoc(u, 0), 2), "monthly", {2}),
      NewSubscriberDoc("yearly", {0}, 0) }

Init ==
    /\ users \in {f \in [Users -> UNION {InitDocs(u) : u \in Users}] :
                     \A u \in Users : f[u] \in InitDocs(u)}
    /\ quizzes = {}
    /\ mock_tests = {}
    /\ files = {}
    /\ now = 1
    /\ req = [r \in Requests |-> IdleRequest]
    /\ hist = [u \in Users |->
                 LET a == ActiveSubscription(users[u], now)
                 IN [active |-> a,
                     free |-> IF a THEN users[u].free_generations_remaining ELSE 0]]
    /\ cal = NoCal
    /\ granted = 0

\* ------------------------------------------------------ handler helpers
\* res.status(code).json(body): the request is answered and the handler ends
Respond(q, code, body) ==
    [q EXCEPT !.pc = "done", !.status = code, !.body = body, !.snap = AbsentDoc,
              !.plan = "", !.expiryDate = {}, !.content = NoContent, !.quizId = ""]

\* the catch blocks of the handlers
Respond500Hang(q) == [q EXCEPT !.pc = "hung"]

Respond500(q) == Respond(q, 500, NoBody)

GateBody(u) ==
    [NoBody EXCEPT !.subscription_status = u.subscriptionStatus,
                   !.remaining_free = u.remainingFree]

\* the handler's code after "const usageStatus = await checkUserUsage(user_id)"
AfterCheckUserUsageNoGate(q, u) ==
    [q EXCEPT !.usage = u, !.snap = AbsentDoc,
              !.pc = IF q.kind = "upload_pdf" THEN "pdf_parse" ELSE "generate"]

AfterCheckUserUsage(q, u) ==
    IF ~u.canGenerate
    THEN Respond([q EXCEPT !.usage = u], 403, GateBody(u))
    ELSE [q EXCEPT !.usage = u, !.snap = AbsentDoc,
                   !.pc = IF q.kind = "upload_pdf" THEN "pdf_parse" ELSE "generate"]

\* the 201 answer of a generation handler
Respond201(q, remainingFree) ==
    Respond(q, 201,
            [NoBody EXCEPT !.subscription_status = q.usage.subscriptionStatus,
                           !.remaining_free = remainingFree,
                           !.id = q.quizId])

\* "if (usageStatus.subscriptionStatus === 'free') remainingFree = await decrementFreeUsage(user_id)"
AfterAddDocAlwaysDecrement(q) ==
    IF q.kind = "create_content_server"
    THEN Respond(q, 201, [NoBody EXCEPT !.id = q.quizId])
    ELSE [q EXCEPT !.pc = "dec_get"]

AfterAddDoc(q) ==
    IF q.kind = "create_content_server"
    THEN Respond(q, 201, [NoBody EXCEPT !.id = q.quizId])
    ELSE IF q.usage.subscriptionStatus = "free"
         THEN [q EXCEPT !.pc = "dec_get"]
         ELSE Respond201(q, q.usage.remainingFree)

\* ------------------------------------------------- the content generator
GenResults == {"valid", "throws", "non_json", "bad_question", "bad_flashcard"}
MockResults == {"valid", "throws", "non_json", "bad_shape"}

\* generateContent(text, qType, numOptions, numQuestions, includeFlashcards)
generateContent(result, includeFlashcards) ==
    IF result \in {"throws", "non_json"}
    THEN [questions |-> "placeholder",
          flashcards |-> IF includeFlashcards THEN "placeholder" ELSE "none"]
    ELSE [questions |-> IF result = "bad_question" THEN "invalid" ELSE "generated",
          flashcards |-> IF ~includeFlashcards THEN "none"
                         ELSE IF result = "bad_flashcard" THEN "invalid"
                         ELSE "generated"]

\* "Sanitize and validate questions" and "Sanitize and validate flashcards"
ValidContentQuestionsOnly(c) == c.questions # "invalid"

ValidContent(c) == c.questions # "invalid" /\ c.flashcards # "invalid"


\* ---------------------------------------------------------------- actions
Pending(r, at) == req[r].pc = at

\* the requests arrive in the order of their numbers
Arrives(r) == req[r].pc = "idle" /\ \A r2 \in Requests : r2 < r => req[r2].pc # "idle"

Step(r, q) == req' = [req EXCEPT ![r] = q]

StoreUnchanged == UNCHANGED <<users, quizzes, mock_tests, files, now, hist, cal, granted>>

UsersStep(u, d) ==
    /\ users' = [users EXCEPT ![u] = d]
    /\ hist' = HistNext(users', now)
    /\ UNCHANGED <<quizzes, mock_tests, files, now, cal, granted>>

\* POST /api/create_content of src/server.js, up to "await generateContent"
CreateContentServer(r) ==
    /\ Arrives(r)
    /\ \E u \in Users, valid \in BOOLEAN :
         LET q == [IdleRequest EXCEPT !.kind = "create_content_server", !.user = u]
         IN Step(r, IF valid THEN [q EXCEPT !.pc = "generate"]
                    ELSE Respond(q, 400, NoBody))
    /\ StoreUnchanged

\* POST /api/create_content of the unnamed parts, up to "await checkUserUsage"
CreateContent(r) ==
    /\ Arrives(r)
    /\ \E u \in Users, valid \in BOOLEAN :
         LET q == [IdleRequest EXCEPT !.kind = "create_content", !.user = u]
         IN Step(r, IF valid THEN [q EXCEPT !.pc = "cuu_get"]
                    ELSE Respond(q, 400, NoBody))
    /\ StoreUnchanged

\* POST /api/upload_pdf, up to "await checkUserUsage"
UploadPdf(r) ==
    /\ Arrives(r)
    /\ \E u \in Users, valid \in BOOLEAN :
         LET q == [IdleRequest EXCEPT !.kind = "upload_pdf", !.user = u]
         IN Step(r, IF valid THEN [q EXCEPT !.pc = "cuu_get"]
                    ELSE Respond(q, 400, NoBody))
    /\ StoreUnchanged

\* POST /api/mock-test/generate, up to "await checkUserUsage"
MockTestGenerate(r) ==
    /\ Arrives(r)
    /\ \E u \in Users, valid \in BOOLEAN :
         LET q == [IdleRequest EXCEPT !.kind = "mock_test", !.user = u]
         IN Step(r, IF valid THEN [q EXCEPT !.pc = "cuu_get"]
                    ELSE Respond(q, 400, NoBody))
    /\ StoreUnchanged

\* checkUserUsage: the branch it takes on the record d read at time t
checkUserUsage_branch(d, t) ==
    IF ~d.exists THEN "create"
    ELSE IF d.subscription_status # "free"
         THEN IF ExpiryInFuture(d, t) THEN "subscriber" ELSE "normalize"
    ELSE "free"

\* checkUserUsage: the value it returns on the record d read at time t
checkUserUsage_return(d, t) ==
    CASE checkUserUsage_branch(d, t) = "create" ->
            Usage(TRUE, InitialFreeGenerations, "free")
      [] checkUserUsage_branch(d, t) = "subscriber" -> SubscriberUsage(d)
      [] OTHER -> FreeTierUsage(d)

\* checkUserUsage: "const userSnap = await getDoc(userRef)" and what follows
checkUserUsage_getDoc(r) ==
    /\ Pending(r, "cuu_get")
    /\ \E ok \in BOOLEAN :
         LET q == req[r]
             d == users[q.user]
             branch == checkUserUsage_branch(d, now)
         IN Step(r,
              IF ~ok THEN Respond500(q)
              ELSE IF branch = "create" THEN [q EXCEPT !.pc = "cuu_set", !.snap = d]
              ELSE IF branch = "normalize"
                   THEN [q EXCEPT !.pc = "cuu_update", !.snap = d]
              ELSE AfterCheckUserUsage(q, checkUserUsage_return(d, now)))
    /\ StoreUnchanged

\* checkUserUsage: "await setDoc(userRef, {...})" for a new user
checkUserUsage_setDoc(r) ==
    /\ Pending(r, "cuu_set")
    /\ LET q == req[r] IN
       \E ok \in BOOLEAN :
         IF ok
         THEN /\ UsersStep(q.user, NewUserDoc(q.user, now))
              /\ Step(r, AfterCheckUserUsage(
                            [q EXCEPT !.writes = @ \cup {"create"}],
                            checkUserUsage_return(q.snap, now)))
         ELSE /\ Step(r, Respond500(q))
              /\ StoreUnchanged

\* checkUserUsage: "await updateDoc(userRef, {...})" for a lapsed subscription
checkUserUsage_updateDoc(r) ==
    /\ Pending(r, "cuu_update")
    /\ LET q == req[r] IN
       \E ok \in BOOLEAN :
         IF ok
         THEN /\ UsersStep(q.user, RevertToFree(users[q.user]))
              /\ Step(r, AfterCheckUserUsage(
                            [q EXCEPT !.writes = @ \cup {"normalize"}],
                            checkUserUsage_return(q.snap, now)))
         ELSE /\ Step(r, Respond500(q))
              /\ StoreUnchanged


Max(a, b) == IF a > b THEN a ELSE b
Min(a, b) == IF a < b THEN a ELSE b

\* "parseInt(x) || dflt": 0 stands for an absent or non-numeric parameter
ParseIntOr(x, dflt) == IF x = 0 THEN dflt ELSE x

\* upload_pdf, "Validate page range"
InvalidPageRange(totalPages, startParam, endParam) ==
    LET start == Max(1, ParseIntOr(startParam, 1))
        end == Min(totalPages, ParseIntOr(endParam, totalPages))
    IN start > end \/ start < 1 \/ end > totalPages

\* upload_pdf: "const pdfData = await pdfParse(req.file.buffer)" and what follows
UploadPdf_pdfParse(r) ==
    /\ Pending(r, "pdf_parse")
    /\ \E ok \in BOOLEAN, totalPages \in 0..2, startParam \in -1..3, endParam \in -1..3 :
         LET q == req[r]
         IN Step(r,
              IF ~ok THEN Respond500(q)
              ELSE IF InvalidPageRange(totalPages, startParam, endParam)
                   THEN Respond(q, 400, NoBody)
              ELSE [q EXCEPT !.pc = "generate"])
    /\ StoreUnchanged

\* create_content and upload_pdf: "const content = await generateContent(...)",
\* generateQuizId, the two validations, up to "await addDoc(quizRef, quizData)"
AwaitGenerateContent(r) ==
    /\ Pending(r, "generate")
    /\ req[r].kind # "mock_test"
    /\ \E result \in GenResults, includeFlashcards \in BOOLEAN :
         LET c == generateContent(result, includeFlashcards)
             q == [req[r] EXCEPT !.genCalls = @ + 1,
                                 !.genFailed = result \in {"throws", "non_json"},
                                 !.malformed = c.questions = "invalid"
                                               \/ c.flashcards = "invalid",
                                 !.content = c]
         IN Step(r, IF ValidContent(c)
                    THEN [q EXCEPT !.validated = TRUE, !.pc = "add_doc"]
                    ELSE Respond500(q))
    /\ StoreUnchanged

\* mock-test: "const mockTestData = await generateMockTest(...)", generateQuizId,
\* up to "await createMockTestPDF(mockTestData, pdfFilePath)"
AwaitGenerateMockTest(r) ==
    /\ Pending(r, "generate")
    /\ req[r].kind = "mock_test"
    /\ \E result \in MockResults :
         LET q == [req[r] EXCEPT !.genCalls = @ + 1,
                                 !.genFailed = result \in {"throws", "non_json"}]
         IN Step(r, IF result \in {"throws", "non_json"}
                    THEN Respond500(q)
                    ELSE [q EXCEPT !.content =
                                      [questions |-> IF result = "valid" THEN "generated"
                                                     ELSE "invalid",
                                       flashcards |-> "none"],
                                   !.validated = TRUE,
                                   !.pc = "create_pdf"])
    /\ StoreUnchanged

\* fs.createWriteStream(filePath) creates or truncates the file; it is complete
\* once the stream has finished
WriteFile(name, complete) ==
    {f \in files : f.name # name} \cup {[name |-> name, complete |-> complete]}

\* mock-test: createMockTestPDF, up to "await addDoc(mockTestRef, {...})"
createMockTestPDF(r) ==
    /\ Pending(r, "create_pdf")
    /\ LET q == req[r] IN
       \E ok \in BOOLEAN, id \in QuizIds :
         LET finished == ok /\ q.content.questions = "generated"
         IN /\ files' = WriteFile(id, finished)
            /\ Step(r, IF finished
                       THEN [q EXCEPT !.quizId = id, !.pc = "add_doc"]
                       ELSE Respond500(q))
    /\ UNCHANGED <<users, quizzes, mock_tests, now, hist, cal, granted>>

\* the documents added; doc_id is the id the store gives the document, fresh for
\* every document: the request's number, moved on by the requests answered 201
\* on connections closed before
DocId(r) == r + Cardinality(Requests) * granted

QuizDocFixedId(r, q) ==
    [doc_id |-> 0, quiz_id |-> q.quizId, user_id |-> q.user,
     source |-> IF q.kind = "upload_pdf" THEN "pdf" ELSE "text",
     content |-> q.content]

QuizDoc(r, q) ==
    [doc_id |-> DocId(r), quiz_id |-> q.quizId, user_id |-> q.user,
     source |-> IF q.kind = "upload_pdf" THEN "pdf" ELSE "text",
     content |-> q.content]

MockTestDoc(r, q) ==
    [doc_id |-> DocId(r), test_id |-> q.quizId, user_id |-> q.user, pdf_path |-> q.quizId]

\* "await addDoc(...)" and what follows, up to "await decrementFreeUsage" or the 201
AddDoc(r) ==
    /\ Pending(r, "add_doc")
    /\ LET q == req[r] IN
       \E ok \in BOOLEAN, id \in QuizIds :
         IF ok
         THEN LET q1 == IF q.kind = "mock_test" THEN q ELSE [q EXCEPT !.quizId = id]
              IN /\ IF q.kind = "mock_test"
                    THEN /\ mock_tests' = mock_tests \cup {MockTestDoc(r, q1)}
                         /\ UNCHANGED quizzes
                    ELSE /\ quizzes' = quizzes \cup {QuizDoc(r, q1)}
                         /\ UNCHANGED mock_tests
                 /\ Step(r, AfterAddDoc([q1 EXCEPT !.saved = TRUE,
                                                   !.content = NoContent]))
         ELSE /\ Step(r, Respond500(q))
              /\ UNCHANGED <<quizzes, mock_tests>>
    /\ UNCHANGED <<users, files, now, hist, cal, granted>>

\* decrementFreeUsage: the test of the record read
CanDecrementAnyStatus(d) == d.exists /\ d.free_generations_remaining > 0

CanDecrementAtZero(d) == d.exists /\ d.subscription_status = "free"

CanDecrement(d) ==
    d.exists /\ d.subscription_status = "free" /\ d.free_generations_remaining > 0

\* decrementFreeUsage: "const userSnap = await getDoc(userRef)" and what follows
decrementFreeUsage_getDoc(r) ==
    /\ Pending(r, "dec_get")
    /\ \E ok \in BOOLEAN :
         LET q == req[r]
             d == users[q.user]
         IN Step(r, IF ok /\ CanDecrement(d)
                    THEN [q EXCEPT !.pc = "dec_update", !.snap = d]
                    ELSE Respond201(q, 0))
    /\ StoreUnchanged

\* decrementFreeUsage: "await updateDoc(userRef, {free_generations_remaining: ...})"
decrementFreeUsage_updateDoc(r) ==
    /\ Pending(r, "dec_update")
    /\ LET q == req[r]
           n == q.snap.free_generations_remaining - 1
       IN \E ok \in BOOLEAN :
            IF ok
            THEN /\ UsersStep(q.user, SetFree(users[q.user], n))
                 /\ Step(r, Respond201([q EXCEPT !.writes = @ \cup {"decrement"}], n))
            ELSE /\ Step(r, Respond201(q, 0))
                 /\ StoreUnchanged


\* the 200 answer of GET /api/user/subscription/:userId
InfoBodyNoExpiry(d) ==
    [NoBody EXCEPT !.free_generations_remaining = d.free_generations_remaining,
                   !.subscription_status = d.subscription_status]

InfoBody(d) ==
    [NoBody EXCEPT !.free_generations_remaining = d.free_generations_remaining,
                   !.subscription_status = d.subscription_status,
                   !.subscription_expiry = d.subscription_expiry]

\* GET /api/user/subscription/:userId, up to "await getDoc(userRef)"
GetSubscription(r) ==
    /\ Arrives(r)
    /\ \E u \in Users :
         Step(r, [IdleRequest EXCEPT !.kind = "subscription_info", !.user = u,
                                     !.pc = "info_get"])
    /\ StoreUnchanged

\* GET subscription: "const userSnap = await getDoc(userRef)" and what follows
GetSubscription_getDoc(r) ==
    /\ Pending(r, "info_get")
    /\ \E ok \in BOOLEAN :
         LET q == req[r]
             d == users[q.user]
         IN Step(r,
              IF ~ok THEN Respond500(q)
              ELSE IF ~d.exists THEN [q EXCEPT !.pc = "info_set", !.snap = d]
              ELSE IF d.subscription_status # "free" /\ ExpiryInPast(d, now)
                   THEN [q EXCEPT !.pc = "info_update", !.snap = d]
              ELSE Respond(q, 200, InfoBody(d)))
    /\ StoreUnchanged

\* GET subscription: "await setDoc(userRef, {...})" for a new user
GetSubscription_setDoc(r) ==
    /\ Pending(r, "info_set")
    /\ LET q == req[r] IN
       \E ok \in BOOLEAN :
         IF ok
         THEN /\ UsersStep(q.user, NewUserDoc(q.user, now))
              /\ Step(r, Respond([q EXCEPT !.writes = @ \cup {"create"}], 200,
                                 [NoBody EXCEPT
                                    !.free_generations_remaining = InitialFreeGenerations,
                                    !.subscription_status = "free"]))
         ELSE /\ Step(r, Respond500(q))
              /\ StoreUnchanged

\* GET subscription: "await updateDoc(userRef, {...})" for a lapsed subscription
GetSubscription_updateDoc(r) ==
    /\ Pending(r, "info_update")
    /\ LET q == req[r] IN
       \E ok \in BOOLEAN :
         IF ok
         THEN /\ UsersStep(q.user, RevertToFree(users[q.user]))
              /\ Step(r, Respond([q EXCEPT !.writes = @ \cup {"normalize"}], 200,
                                 InfoBody(RevertToFree(q.snap))))
         ELSE /\ Step(r, Respond500(q))
              /\ StoreUnchanged

\* POST /api/user/subscribe, up to "await getDoc(userRef)"; "" is a missing field
Subscribe(r) ==
    /\ Arrives(r)
    /\ \E u \in Users \cup {""}, plan \in PlanInputs \cup {""} :
         LET q == [IdleRequest EXCEPT !.kind = "subscribe", !.user = u, !.plan = plan]
         IN Step(r, IF u = "" \/ plan = "" THEN Respond(q, 400, NoBody)
                    ELSE [q EXCEPT !.pc = "sub_get"])
    /\ StoreUnchanged

\* subscribe: "const userSnap = await getDoc(userRef)", the expiry date, the switch
Subscribe_getDoc(r) ==
    /\ Pending(r, "sub_get")
    /\ \E ok \in BOOLEAN :
         LET q == req[r]
             d == users[q.user]
         IN Step(r,
              IF ~ok THEN Respond500(q)
              ELSE IF q.plan \notin Plans THEN Respond(q, 400, NoBody)
              ELSE [q EXCEPT !.expiryDate = {now + PlanMonths(q.plan)},
                             !.snap = d,
                             !.pc = IF d.exists THEN "sub_update" ELSE "sub_set"])
    /\ StoreUnchanged

SubscribeBody(q) ==
    [NoBody EXCEPT !.subscription_status = q.plan,
                   !.subscription_expiry = q.expiryDate]

\* subscribe: "await setDoc(userRef, {...})" for a new user
Subscribe_setDoc(r) ==
    /\ Pending(r, "sub_set")
    /\ LET q == req[r] IN
       \E ok \in BOOLEAN :
         IF ok
         THEN /\ UsersStep(q.user, NewSubscriberDoc(q.plan, q.expiryDate, now))
              /\ Step(r, Respond([q EXCEPT !.writes = @ \cup {"subscribe_create"}], 200,
                                 SubscribeBody(q)))
         ELSE /\ Step(r, Respond500(q))
              /\ StoreUnchanged

\* subscribe: "await updateDoc(userRef, {...})" for an existing user
Subscribe_updateDoc(r) ==
    /\ Pending(r, "sub_update")
    /\ LET q == req[r] IN
       \E ok \in BOOLEAN :
         IF ok
         THEN /\ UsersStep(q.user, SetSubscription(users[q.user], q.plan, q.expiryDate))
              /\ Step(r, Respond([q EXCEPT !.writes = @ \cup {"subscribe"}], 200,
                                 SubscribeBody(q)))
         ELSE /\ Step(r, Respond500(q))
              /\ StoreUnchanged

\* the clock advances by a month
Tick ==
    /\ now < MaxTime
    /\ now' = now + 1
    /\ hist' = HistNext(users, now')
    /\ UNCHANGED <<users, quizzes, mock_tests, files, req, cal, granted>>

Next ==
    \/ \E r \in Requests : CreateContentServer(r)
    \/ \E r \in Requests : CreateContent(r)
    \/ \E r \in Requests : UploadPdf(r)
    \/ \E r \in Requests : MockTestGenerate(r)
    \/ \E r \in Requests : GetSubscription(r)
    \/ \E r \in Requests : Subscribe(r)
    \/ \E r \in Requests : checkUserUsage_getDoc(r)
    \/ \E r \in Requests : checkUserUsage_setDoc(r)
    \/ \E r \in Requests : checkUserUsage_updateDoc(r)
    \/ \E r \in Requests : UploadPdf_pdfParse(r)
    \/ \E r \in Requests : AwaitGenerateContent(r)
    \/ \E r \in Requests : AwaitGenerateMockTest(r)
    \/ \E r \in Requests : createMockTestPDF(r)
    \/ \E r \in Requests : AddDoc(r)
    \/ \E r \in Requests : decrementFreeUsage_getDoc(r)
    \/ \E r \in Requests : decrementFreeUsage_updateDoc(r)
    \/ \E r \in Requests : GetSubscription_getDoc(r)
    \/ \E r \in Requests : GetSubscription_setDoc(r)
    \/ \E r \in Requests : GetSubscription_updateDoc(r)
    \/ \E r \in Requests : Subscribe_getDoc(r)
    \/ \E r \in Requests : Subscribe_setDoc(r)
    \/ \E r \in Requests : Subscribe_updateDoc(r)
    \/ Tick

Spec == Init /\ [][Next]_vars


\* The same program started on any stored record of the users collection,
\* also one that holds a plan and no expiry.
StoredDocs(u) ==
    InitDocs(u) \cup
    { SetSubscription(SetFree(NewUserDoc(u, 0), 3), "quarterly", {}),
      SetSubscription(SetFree(NewUserDoc(u, 0), 0), "monthly", {}) }

InitStoredRecords ==
    /\ users \in {f \in [Users -> UNION {StoredDocs(u) : u \in Users}] :
                     \A u \in Users : f[u] \in StoredDocs(u)}
    /\ quizzes = {}
    /\ mock_tests = {}
    /\ files = {}
    /\ now = 1
    /\ req = [r \in Requests |-> IdleRequest]
    /\ hist = [u \in Users |->
                 LET a == ActiveSubscription(users[u], now)
                 IN [active |-> a,
                     free |-> IF a THEN users[u].free_generations_remaining ELSE 0]]
    /\ cal = NoCal
    /\ granted = 0

SpecStoredRecords == InitStoredRecords /\ [][Next]_vars

\* Subscribe's expiry computation on calendar dates: the call happens on any
\* day of a common year or of a leap year, early or late in the day.
CallYears == {2023, 2024}
CallHours == {0, 23}

CallDates ==
    {dt \in [year : CallYears, month : 0..11, day : 1..31, hour : CallHours] :
        dt.day <= DaysInMonth(dt.year, dt.month)}

InitCalendar ==
    /\ users = [u \in Users |-> AbsentDoc]
    /\ quizzes = {}
    /\ mock_tests = {}
    /\ files = {}
    /\ now = 1
    /\ req = [r \in Requests |-> IdleRequest]
    /\ hist = [u \in Users |-> [active |-> FALSE, free |-> 0]]
    /\ cal \in {[NoCal EXCEPT !.pc = "call", !.date = dt] : dt \in CallDates}
    /\ granted = 0

\* subscribe: "let expiryDate = new Date()" and the switch, for a valid plan
SubscribeExpiryDate ==
    /\ cal.pc = "call"
    /\ \E plan \in Plans :
         cal' = [cal EXCEPT !.pc = "done", !.plan = plan,
                            !.expiry = ExpiryDate(cal.date, plan)]
    /\ UNCHANGED <<users, quizzes, mock_tests, files, now, req, hist, granted>>

NextCalendar == SubscribeExpiryDate

SpecCalendar == InitCalendar /\ [][NextCalendar]_vars

\* The generation handlers with decrementFreeUsage performed by the store as one
\* atomic read-modify-write, for a free user with one generation left.
decrementFreeUsage_atomic(r) ==
    /\ Pending(r, "dec_get")
    /\ LET q == req[r]
           d == users[q.user]
           n == d.free_generations_remaining - 1
       IN \E ok \in BOOLEAN :
            IF ok /\ CanDecrement(d)
            THEN /\ UsersStep(q.user, SetFree(d, n))
                 /\ Step(r, Respond201([q EXCEPT !.writes = @ \cup {"decrement"}], n))
            ELSE /\ Step(r, Respond201(q, 0))
                 /\ StoreUnchanged

InitAtomicDecrement ==
    /\ users = [u \in Users |-> SetFree(NewUserDoc(u, 0), 1)]
    /\ quizzes = {}
    /\ mock_tests = {}
    /\ files = {}
    /\ now = 1
    /\ req = [r \in Requests |-> IdleRequest]
    /\ hist = [u \in Users |-> [active |-> FALSE, free |-> 0]]
    /\ cal = NoCal
    /\ granted = 0

NextAtomicDecrement ==
    \/ \E r \in Requests : CreateContent(r)
    \/ \E r \in Requests : UploadPdf(r)
    \/ \E r \in Requests : MockTestGenerate(r)
    \/ \E r \in Requests : checkUserUsage_getDoc(r)
    \/ \E r \in Requests : UploadPdf_pdfParse(r)
    \/ \E r \in Requests : AwaitGenerateContent(r)
    \/ \E r \in Requests : AwaitGenerateMockTest(r)
    \/ \E r \in Requests : createMockTestPDF(r)
    \/ \E r \in Requests : AddDoc(r)
    \/ \E r \in Requests : decrementFreeUsage_atomic(r)

SpecAtomicDecrement == InitAtomicDecrement /\ [][NextAtomicDecrement]_vars

\* ------------------------------------------ one user's requests in sequence
\* the response has been sent and the connection is closed: the next request of
\* the user can arrive
Recycle(r) ==
    /\ Pending(r, "done")
    /\ granted <= InitialFreeGenerations
    /\ granted' = granted + (IF req[r].status = 201 THEN 1 ELSE 0)
    /\ Step(r, IdleRequest)
    /\ UNCHANGED <<users, quizzes, mock_tests, files, now, hist, cal>>

\* a new user, who has no record
InitSequential ==
    /\ users = [u \in Users |-> AbsentDoc]
    /\ quizzes = {}
    /\ mock_tests = {}
    /\ files = {}
    /\ now = 1
    /\ req = [r \in Requests |-> IdleRequest]
    /\ hist = [u \in Users |-> [active |-> FALSE, free |-> 0]]
    /\ cal = NoCal
    /\ granted = 0

\* POST /api/create_content requests of the user, each arriving after the one
\* before it was answered; no store call fails; the user never subscribes.  The
\* generator returns questions without flashcards, or fails, and generateQuizId
\* returns "q1".
NextSequential ==
    \/ \E r \in Requests :
          /\ CreateContent(r)
          /\ \A r2 \in Requests \ {r} : req[r2].pc = "idle"
    \/ \E r \in Requests : checkUserUsage_getDoc(r) /\ req'[r].status # 500
    \/ \E r \in Requests : checkUserUsage_setDoc(r) /\ req'[r].status # 500
    \/ \E r \in Requests :
          /\ AwaitGenerateContent(r)
          /\ req'[r].content.flashcards = "none"
    \/ \E r \in Requests : AddDoc(r) /\ req'[r].saved /\ req'[r].quizId = "q1"
    \/ \E r \in Requests :
          /\ decrementFreeUsage_getDoc(r)
          /\ CanDecrement(users[req[r].user]) => req'[r].pc = "dec_update"
    \/ \E r \in Requests :
          /\ decrementFreeUsage_updateDoc(r)
          /\ "decrement" \in req'[r].writes
    \/ \E r \in Requests : Recycle(r)

SpecSequential == InitSequential /\ [][NextSequential]_vars

\* The generation-gated handlers under the scheduling of the event loop: the
\* continuation of a handler runs once the call it awaits has returned or thrown.
HandlerStep(r) ==
    \/ checkUserUsage_getDoc(r)
    \/ checkUserUsage_setDoc(r)
    \/ checkUserUsage_updateDoc(r)
    \/ UploadPdf_pdfParse(r)
    \/ AwaitGenerateContent(r)
    \/ AwaitGenerateMockTest(r)
    \/ createMockTestPDF(r)
    \/ AddDoc(r)
    \/ decrementFreeUsage_getDoc(r)
    \/ decrementFreeUsage_updateDoc(r)

NextGeneration ==
    \/ \E r \in Requests : CreateContent(r)
    \/ \E r \in Requests : UploadPdf(r)
    \/ \E r \in Requests : MockTestGenerate(r)
    \/ \E r \in Requests : HandlerStep(r)

SpecGenerationFair ==
    /\ Init
    /\ [][NextGeneration]_vars
    /\ \A r \in Requests : WF_vars(HandlerStep(r))

\* ================================================================ claims
Free(u) == users[u].free_generations_remaining

\* the step is one of request r
StepOf(r) == req'[r] # req[r]

\* request r's checkUserUsage returns in the step
Returns(r, from) == req[r].pc = from /\ ~req[r].usage.checked /\ req'[r].usage.checked

ArtifactsOf(r) ==
    {a \in quizzes : a.doc_id = r} \cup {a \in mock_tests : a.doc_id = r}

\* C1: checkUserUsage for a user that has no record returns canGenerate = true,
\* remainingFree = 10, subscriptionStatus = 'free', and when it returns the user's
\* record exists with free_generations_remaining = 10, subscription_status =
\* 'free' and subscription_expiry = null.
C1_NewUserFirstCheck ==
    [][\A r \in Requests :
          Returns(r, "cuu_set") =>
             /\ req'[r].usage = Usage(TRUE, 10, "free")
             /\ users'[req[r].user].exists
             /\ users'[req[r].user].free_generations_remaining = 10
             /\ users'[req[r].user].subscription_status = "free"
             /\ users'[req[r].user].subscription_expiry = {}]_vars

C1_Witness ==
    \E r \in Requests :
       /\ req[r].kind \in GatedKinds
       /\ "create" \in req[r].writes
       /\ req[r].usage.canGenerate
       /\ req[r].pc = "generate"

C3_GenerationFailureCostsNothing ==
    [][\A r \in Requests :
          (req[r].kind \in GatedKinds /\ req[r].genFailed /\ StepOf(r)) =>
             Free(req[r].user)' = Free(req[r].user)]_vars

\* C4: free_generations_remaining is never negative, in any record, under every
\* interleaving of the requests.
C4_CounterNeverNegative ==
    \A u \in Users : users[u].free_generations_remaining >= 0

C4_Witness ==
    \E r1, r2 \in Requests :
       /\ r1 # r2
       /\ req[r1].user = req[r2].user
       /\ "decrement" \in req[r1].writes
       /\ req[r2].status = 201 /\ req[r2].usage.remainingFree = 1
       /\ req[r1].usage.remainingFree = 1
       /\ Free(req[r1].user) = 0

\* C5: decrementFreeUsage, when nothing changed the record between its read and
\* its write, on a free record with n > 0 generations stores n-1 and returns n-1;
\* on any other record (n = 0, a plan as status, no record) it returns 0 and
\* leaves the record as it is.  (A failing store call also returns 0 and writes
\* nothing.)
C5_DecrementFreeUsage ==
    [][\A r \in Requests :
          LET u == req[r].user
              d == users[u]
              n == d.free_generations_remaining
          IN /\ (req[r].pc = "dec_update" /\ StepOf(r) /\ d = req[r].snap) =>
                   /\ d.subscription_status = "free" /\ n > 0
                   /\ \/ /\ "decrement" \in req'[r].writes
                         /\ users'[u] = [d EXCEPT !.free_generations_remaining = n - 1]
                         /\ req'[r].body.remaining_free = n - 1
                      \/ /\ "decrement" \notin req'[r].writes
                         /\ users' = users
                         /\ req'[r].body.remaining_free = 0
             /\ (req[r].pc = "dec_get" /\ StepOf(r)
                 /\ ~(d.exists /\ d.subscription_status = "free" /\ n > 0)) =>
                   /\ users' = users
                   /\ req'[r].pc = "done"
                   /\ req'[r].body.remaining_free = 0]_vars

C5_Witness ==
    \E r1, r2 \in Requests :
       /\ "decrement" \in req[r1].writes
       /\ req[r1].body.remaining_free = 0
       /\ req[r2].status = 201 /\ req[r2].usage.remainingFree = 1
       /\ "decrement" \notin req[r2].writes
       /\ Free(req[r1].user) = 0

\* C6: while a user's record has held a plan with an expiry in the future in every
\* state of the run, every checkUserUsage for that user returns canGenerate = true,
\* remainingFree = 0 and the stored status, and free_generations_remaining is the
\* value the run started with.
C6_SubscriberBypassesCounter ==
    [][\A u \in Users :
          hist'[u].active =>
             /\ users'[u].free_generations_remaining = hist'[u].free
             /\ \A r \in Requests :
                   (req[r].user = u /\ Returns(r, "cuu_get")) =>
                      req'[r].usage = Usage(TRUE, 0, users[u].subscription_status)]_vars

C6_Witness ==
    \E u \in Users :
       /\ hist[u].active
       /\ \A r \in Requests :
             req[r].user = u /\ req[r].kind \in GatedKinds /\ req[r].status = 201

\* C7: when checkUserUsage reads a record whose status is a plan and whose expiry
\* is absent or not in the future, it rewrites the record to subscription_status =
\* 'free' and subscription_expiry = null, leaves free_generations_remaining and
\* the other fields as stored, and returns the free-tier decision for the counter
\* it read.
C7_LapsedIsNormalized ==
    [][\A r \in Requests :
          LET u == req[r].user IN
          /\ (req[r].pc = "cuu_get" /\ StepOf(r) /\ req'[r].status # 500
              /\ users[u].exists /\ users[u].subscription_status # "free"
              /\ ~(\E e \in users[u].subscription_expiry : e > now)) =>
                 req'[r].pc = "cuu_update" /\ req'[r].snap = users[u]
          /\ (req[r].pc = "cuu_update" /\ StepOf(r) /\ req'[r].status # 500) =>
                /\ users'[u] = [users[u] EXCEPT !.subscription_status = "free",
                                                !.subscription_expiry = {}]
                /\ req'[r].usage =
                      IF req[r].snap.free_generations_remaining > 0
                      THEN Usage(TRUE, req[r].snap.free_generations_remaining, "free")
                      ELSE Usage(FALSE, 0, "free")]_vars

C7_Witness ==
    \E r \in Requests :
       /\ req[r].kind \in GatedKinds
       /\ "normalize" \in req[r].writes
       /\ req[r].usage.checked
       /\ users[req[r].user].subscription_status = "free"
       /\ users[req[r].user].subscription_expiry = {}
       /\ users[req[r].user].free_generations_remaining = 3

\* C8: for an existing record d read at time now, checkUserUsage returns
\* (true, 0, d's status) when the status is a plan and the expiry is after now;
\* otherwise (true, n, 'free') when free_generations_remaining = n > 0; otherwise
\* (false, 0, 'free').
C8_Decision(d, t) ==
    IF d.subscription_status # "free" /\ (\E e \in d.subscription_expiry : e > t)
    THEN Usage(TRUE, 0, d.subscription_status)
    ELSE IF d.free_generations_remaining > 0
         THEN Usage(TRUE, d.free_generations_remaining, "free")
         ELSE Usage(FALSE, 0, "free")

C8_CheckUserUsageDecision ==
    [][\A r \in Requests :
          /\ Returns(r, "cuu_get") => req'[r].usage = C8_Decision(users[req[r].user], now)
          /\ Returns(r, "cuu_update") => req'[r].usage = C8_Decision(req[r].snap, now)]_vars

C8_Witness ==
    \E r \in Requests :
       /\ req[r].usage.checked /\ ~req[r].usage.canGenerate
       /\ "normalize" \in req[r].writes
       /\ req[r].status = 403

\* C9: when checkUserUsage returned canGenerate = false, the handler has answered
\* 403 with subscription_status 'free' and remaining_free 0, has made no
\* content-generator call, has created no artifact and has not written
\* free_generations_remaining.
C9_DeniedRequest ==
    \A r \in Requests :
       (req[r].kind \in GatedKinds /\ req[r].usage.checked
        /\ ~req[r].usage.canGenerate) =>
          /\ req[r].pc = "done"
          /\ req[r].status = 403
          /\ req[r].body.subscription_status = "free"
          /\ req[r].body.remaining_free = 0
          /\ req[r].genCalls = 0
          /\ ArtifactsOf(r) = {}
          /\ req[r].writes \cap {"create", "decrement"} = {}

C9_Witness ==
    \E r \in Requests :
       /\ req[r].status = 403
       /\ \E r2 \in Requests : req[r2].kind = "mock_test" /\ req[r2].status = 403 /\ r2 # r

\* C10: every variant of every content-creation endpoint consults the entitlement
\* gate before it generates: a request that called the content generator or
\* created an artifact had canGenerate = true from checkUserUsage, so none is made
\* for a user whose record is free with no generations left.
C10_EveryVariantGated ==
    \A r \in Requests :
       (req[r].kind \in GenerationKinds /\ (req[r].genCalls > 0 \/ ArtifactsOf(r) # {})) =>
          req[r].usage.checked /\ req[r].usage.canGenerate

\* C11: in every reachable state, a user record whose subscription_status is
\* 'free' has subscription_expiry = null, under every interleaving of
\* checkUserUsage, decrementFreeUsage, the subscription GET and subscribe.
C11_FreeHasNoExpiry ==
    \A u \in Users :
       (users[u].exists /\ users[u].subscription_status = "free") =>
          users[u].subscription_expiry = {}

C11_Witness ==
    \E r1, r2 \in Requests :
       /\ req[r1].user = req[r2].user /\ req[r1].user \in Users
       /\ "subscribe" \in req[r1].writes
       /\ "normalize" \in req[r2].writes
       /\ users[req[r1].user].subscription_status = "free"
       /\ users[req[r1].user].subscription_expiry = {}

\* C12: whichever operation creates a user's record (checkUserUsage, the
\* subscription GET or subscribe), the record it creates holds
\* free_generations_remaining = 10.
C12_FirstContactGivesTen ==
    [][\A u \in Users :
          (~users[u].exists /\ users'[u].exists) =>
             users'[u].free_generations_remaining = 10]_vars

\* C13: a subscribe with a valid plan, for a user whose record exists when the
\* handler reads it, computes the expiry as the call time plus 1 month (monthly),
\* 3 months (quarterly) or 12 months (yearly); its write sets subscription_status
\* to the plan and subscription_expiry to that expiry, leaves
\* free_generations_remaining and every other field of the record as stored, and
\* the answer is 200 with the plan and the expiry.
C13_SubscribeKeepsCounter ==
    [][\A r \in Requests :
          LET u == req[r].user IN
          /\ (req[r].pc = "sub_get" /\ StepOf(r) /\ req'[r].pc # "done") =>
                /\ req[r].plan \in {"monthly", "quarterly", "yearly"}
                /\ req'[r].expiryDate =
                      {now + (CASE req[r].plan = "monthly" -> 1
                                [] req[r].plan = "quarterly" -> 3
                                [] OTHER -> 12)}
          /\ (req[r].pc = "sub_update" /\ StepOf(r) /\ req'[r].status = 200) =>
                /\ users'[u] = [users[u] EXCEPT
                                   !.subscription_status = req[r].plan,
                                   !.subscription_expiry = req[r].expiryDate]
                /\ Free(u)' = Free(u)
                /\ req'[r].body.subscription_status = req[r].plan
                /\ req'[r].body.subscription_expiry = req[r].expiryDate]_vars

C13_Witness ==
    \E r \in Requests :
       /\ req[r].kind = "subscribe" /\ req[r].status = 200
       /\ "subscribe" \in req[r].writes
       /\ users[req[r].user].subscription_status = "quarterly"
       /\ users[req[r].user].subscription_expiry = req[r].body.subscription_expiry
       /\ Free(req[r].user) = 10

\* C14: POST /api/user/subscribe with userId or plan missing, or with a plan
\* outside {monthly, quarterly, yearly}, is answered 400 and changes no state: the
\* request with a missing field is answered 400 when it arrives, the request with
\* an unknown plan is answered 400 by its next step, and neither step writes the
\* users collection.
C14_BadSubscribeIs400 ==
    [][\A r \in Requests :
          /\ (req[r].pc = "idle" /\ req'[r].kind = "subscribe") =>
                /\ users' = users
                /\ \/ req'[r].pc = "done" /\ req'[r].status = 400
                   \/ req'[r].pc = "sub_get" /\ req'[r].user # "" /\ req'[r].plan # ""
          /\ (req[r].pc = "sub_get" /\ StepOf(r)
              /\ req[r].plan \notin {"monthly", "quarterly", "yearly"}) =>
                /\ users' = users
                /\ req'[r].pc = "done" /\ req'[r].status = 400
                /\ req'[r].writes = {}]_vars

\* the month a plan's expiry falls in, counted from year 0, by the claim's terms
C15_TargetMonth ==
    cal.date.year * 12 + cal.date.month
    + (CASE cal.plan = "monthly" -> 1 [] cal.plan = "quarterly" -> 3 [] OTHER -> 12)

\* C15 as stated: for every call date, those whose day of the month does not
\* exist in the target month included, the expiry has the call's day of the month
\* and time of day and lies exactly 1 calendar month (monthly), 3 calendar months
\* (quarterly) or 1 calendar year (yearly) after the call.
C15_SameDayEveryDate ==
    cal.pc = "done" =>
       /\ cal.expiry.year * 12 + cal.expiry.month = C15_TargetMonth
       /\ cal.expiry.day = cal.date.day
       /\ cal.expiry.hour = cal.date.hour

\* C15 amended: when the call's day of the month exists in the target month, the
\* expiry is that day of the target month at the call's time of day; when it does
\* not exist there, the expiry is in the month after the target month, on the day
\* numbered by the excess of the call's day over the target month's length, at the
\* call's time of day.
C15_ExpiryDate ==
    cal.pc = "done" =>
       LET ty == C15_TargetMonth \div 12
           tm == C15_TargetMonth % 12
           len == DaysInMonth(ty, tm)
       IN /\ cal.expiry.hour = cal.date.hour
          /\ IF cal.date.day <= len
             THEN /\ cal.expiry.year * 12 + cal.expiry.month = C15_TargetMonth
                  /\ cal.expiry.day = cal.date.day
             ELSE /\ cal.expiry.year * 12 + cal.expiry.month = C15_TargetMonth + 1
                  /\ cal.expiry.day = cal.date.day - len

C15_Witness ==
    /\ cal.pc = "done" /\ cal.plan = "yearly"
    /\ cal.date = [year |-> 2024, month |-> 1, day |-> 29, hour |-> 23]
    /\ cal.expiry = [year |-> 2025, month |-> 2, day |-> 1, hour |-> 23]

\* the requests of user u that were answered 201
C16_Granted(u) ==
    {r \in Requests : req[r].kind \in GatedKinds /\ req[r].user = u /\ req[r].status = 201}

C16_Decremented(u) ==
    {r \in Requests : req[r].user = u /\ "decrement" \in req[r].writes}

\* C16 as stated: when the store performs the decrement as one atomic
\* read-modify-write, of two concurrent generation requests of a free user with
\* free_generations_remaining = 1 at most one is granted (201) and the other is
\* denied: the two are never both answered 201.
C16_AtomicDecrementOneGrant ==
    \A u \in Users : Cardinality(C16_Granted(u)) <= 1

\* C16 amended: with the decrement performed as one atomic read-modify-write, two
\* concurrent generation requests of a free user with one generation left take
\* exactly one unit between them (the counter is 1 less the number of decrements
\* made, never below 0), every request that was granted had read the counter 1 in
\* its checkUserUsage, and a request is denied (403) exactly when its
\* checkUserUsage read the record after the other request's decrement; two requests
\* that both read before either decrement are both granted.
C16_AtomicDecrementOneUnit ==
    \A u \in Users :
       /\ Free(u) = 1 - Cardinality(C16_Decremented(u))
       /\ Free(u) >= 0
       /\ \A r \in Requests :
             (req[r].user = u /\ req[r].usage.checked) =>
                IF req[r].usage.canGenerate
                THEN req[r].usage = Usage(TRUE, 1, "free")
                ELSE /\ req[r].status = 403
                     /\ \E r2 \in C16_Decremented(u) : r2 # r
       /\ \A r \in C16_Granted(u) : req[r].usage = Usage(TRUE, 1, "free")

C16_Witness ==
    \E r1, r2 \in Requests :
       /\ r1 # r2 /\ req[r1].user = req[r2].user
       /\ req[r1].status = 201 /\ "decrement" \in req[r1].writes
       /\ req[r1].body.remaining_free = 0
       /\ req[r2].status = 201 /\ "decrement" \notin req[r2].writes
       /\ req[r2].body.remaining_free = 0
       /\ ArtifactsOf(r1) # {} /\ ArtifactsOf(r2) # {}
       /\ Free(req[r1].user) = 0

\* C17: in the code as written two concurrent generation requests of a free user
\* with free_generations_remaining = 1 can both be granted.  Whenever two requests
\* of a user both read the counter 1 in checkUserUsage and both were answered 201,
\* each has created its artifact and the counter is 0 once a decrement was written
\* (1 otherwise): two generations granted, at most one unit spent.  The witness is
\* the interleaving in which both decrements read 1 and both write 0.
C17_BothGrantedOneUnitSpent ==
    \A r1, r2 \in Requests :
       (/\ r1 # r2 /\ req[r1].user = req[r2].user
        /\ req[r1].kind \in GatedKinds /\ req[r2].kind \in GatedKinds
        /\ req[r1].status = 201 /\ req[r2].status = 201
        /\ req[r1].usage = Usage(TRUE, 1, "free")
        /\ req[r2].usage = Usage(TRUE, 1, "free")) =>
          /\ ArtifactsOf(r1) # {} /\ ArtifactsOf(r2) # {}
          /\ ArtifactsOf(r1) # ArtifactsOf(r2)
          /\ Free(req[r1].user) =
                IF "decrement" \in req[r1].writes \cup req[r2].writes THEN 0 ELSE 1

C17_Witness ==
    \E r1, r2 \in Requests :
       /\ r1 # r2 /\ req[r1].user = req[r2].user
       /\ req[r1].kind \in GatedKinds /\ req[r2].kind \in GatedKinds
       /\ req[r1].usage = Usage(TRUE, 1, "free")
       /\ req[r2].usage = Usage(TRUE, 1, "free")
       /\ req[r1].status = 201 /\ req[r2].status = 201
       /\ "decrement" \in req[r1].writes /\ "decrement" \in req[r2].writes
       /\ ArtifactsOf(r1) # {} /\ ArtifactsOf(r2) # {}
       /\ Free(req[r1].user) = 0

\* C18: the counter of a record whose stored status is not 'free' is never
\* written by a generation request: a step of decrementFreeUsage taken while the
\* stored subscription_status is a plan leaves free_generations_remaining as it is,
\* also when the record became subscribed after the request's checkUserUsage
\* reported 'free' and before its decrementFreeUsage finished.
C18_NoDecrementOfSubscribedRecord ==
    [][\A r \in Requests :
          LET u == req[r].user IN
          (/\ req[r].kind \in GatedKinds
           /\ req[r].usage.subscriptionStatus = "free"
           /\ req[r].pc \in {"dec_get", "dec_update"} /\ StepOf(r)
           /\ users[u].subscription_status # "free") =>
             Free(u)' = Free(u)]_vars

\* C19: checkUserUsage is idempotent.  When a call returns, whether it created
\* the record, normalized it (no other request having changed the record between
\* the call's read and its write) or only read it, a second call on the record as
\* the first left it, at the same time, takes a branch that writes nothing and
\* returns the same (canGenerate, remainingFree, subscriptionStatus).
C19_CheckUserUsageIdempotent ==
    [][\A r \in Requests :
          (\/ Returns(r, "cuu_get")
           \/ Returns(r, "cuu_set")
           \/ Returns(r, "cuu_update") /\ users[req[r].user] = req[r].snap) =>
             LET d == users'[req[r].user]
             IN /\ checkUserUsage_branch(d, now') \in {"subscriber", "free"}
                /\ checkUserUsage_return(d, now') = req'[r].usage]_vars

C19_Witness ==
    \E r1, r2 \in Requests :
       /\ r1 # r2 /\ req[r1].user = req[r2].user
       /\ "normalize" \in req[r1].writes /\ req[r1].usage.checked
       /\ req[r2].usage.checked /\ req[r2].writes = {}
       /\ req[r2].usage = req[r1].usage
       /\ req[r2].usage = Usage(TRUE, 2, "free")

C21_Lapsed(d, t) ==
    d.exists /\ d.subscription_status # "free" /\ \E e \in d.subscription_expiry : e < t

\* C21: a read of a lapsed record by checkUserUsage or by the subscription GET
\* does not complete before the record is normalized: the read goes on to the
\* updateDoc, and when that succeeds the stored record has subscription_status =
\* 'free' and subscription_expiry = null and the caller is told 'free'; no read
\* of a lapsed record returns or answers with a plan as status.
C21_LazyNormalization ==
    [][\A r \in Requests :
          LET u == req[r].user IN
          StepOf(r) =>
             /\ (req[r].pc = "cuu_get" /\ C21_Lapsed(users[u], now)
                 /\ req'[r].status # 500) =>
                   req'[r].pc = "cuu_update" /\ ~req'[r].usage.checked
             /\ (req[r].pc = "info_get" /\ C21_Lapsed(users[u], now)
                 /\ req'[r].status # 500) =>
                   req'[r].pc = "info_update"
             /\ (req[r].pc = "cuu_update" /\ req'[r].status # 500) =>
                   /\ users'[u].subscription_status = "free"
                   /\ users'[u].subscription_expiry = {}
                   /\ req'[r].usage.subscriptionStatus = "free"
             /\ (req[r].pc = "info_update" /\ req'[r].status # 500) =>
                   /\ users'[u].subscription_status = "free"
                   /\ users'[u].subscription_expiry = {}
                   /\ req'[r].status = 200
                   /\ req'[r].body.subscription_status = "free"
                   /\ req'[r].body.subscription_expiry = {}]_vars

C21_Witness ==
    \E r1, r2 \in Requests :
       /\ r1 # r2 /\ req[r1].user = req[r2].user
       /\ req[r1].kind = "subscription_info" /\ req[r1].status = 200
       /\ "normalize" \in req[r1].writes
       /\ req[r2].kind \in GatedKinds /\ req[r2].usage.checked
       /\ req[r2].usage.subscriptionStatus = "free" /\ req[r2].writes = {}
       /\ users[req[r1].user].subscription_status = "free"
       /\ users[req[r1].user].subscription_expiry = {}

\* C22: a request of a generation-gated endpoint that was answered 400, the
\* 'Invalid page range' answer of POST /api/upload_pdf included, has written no
\* user record (neither created nor normalized one, nor decremented), has written
\* no artifact and has made no content-generator call.
C22_InputErrorMutatesNothing ==
    \A r \in Requests :
       (req[r].kind \in GatedKinds /\ req[r].status = 400) =>
          /\ req[r].writes = {}
          /\ ArtifactsOf(r) = {}
          /\ req[r].genCalls = 0

\* C23: every store failure met while a generation-gated request is handled, in
\* checkUserUsage, in the artifact addDoc or in decrementFreeUsage, ends the
\* request with a 500 answer, the failed call not being made again.  A store step
\* failed when it left its write undone: the setDoc without the record created,
\* the updateDoc without the record normalized, the addDoc without the artifact
\* saved, the decrement's updateDoc without the counter written, the decrement's
\* getDoc ending the call on a record that could be decremented.
C23_StoreFailureIs500 ==
    [][\A r \in Requests :
          LET u == req[r].user
              failed ==
                 \/ req[r].pc = "cuu_set" /\ "create" \notin req'[r].writes
                 \/ req[r].pc = "cuu_update" /\ "normalize" \notin req'[r].writes
                 \/ req[r].pc = "add_doc" /\ ~req'[r].saved
                 \/ req[r].pc = "dec_update" /\ "decrement" \notin req'[r].writes
                 \/ /\ req[r].pc = "dec_get" /\ req'[r].pc = "done"
                    /\ users[u].exists /\ users[u].subscription_status = "free"
                    /\ users[u].free_generations_remaining > 0
          IN (req[r].kind \in GatedKinds /\ StepOf(r) /\ failed) =>
                req'[r].pc = "done" /\ req'[r].status = 500]_vars

\* C24: when the content that generateContent returned to a quiz handler has a
\* question without question, type or answer, or a flashcard without term or
\* definition, the handler answers 500 in that step, which writes nothing; the
\* request has saved no artifact and has made no decrement of
\* free_generations_remaining.
C24_MalformedContentIs500 ==
    [][\A r \in Requests :
          (req'[r].kind \in {"create_content", "upload_pdf"} /\ req'[r].malformed) =>
             /\ req'[r].pc = "done" /\ req'[r].status = 500
             /\ ~req'[r].saved
             /\ {a \in quizzes' : a.doc_id = r} = {}
             /\ "decrement" \notin req'[r].writes
             /\ StepOf(r) =>
                   /\ req[r].pc = "generate"
                   /\ users' = users /\ quizzes' = quizzes /\ mock_tests' = mock_tests]_vars

C24_Witness ==
    \E r1, r2 \in Requests :
       /\ r1 # r2 /\ req[r1].user = req[r2].user
       /\ req[r1].kind = "create_content" /\ req[r1].malformed /\ req[r1].status = 500
       /\ req[r2].kind = "upload_pdf" /\ req[r2].malformed /\ req[r2].status = 500
       /\ "create" \in req[r1].writes
       /\ Free(req[r1].user) = 10

\* C25: on every generation-gated endpoint a content-generator failure (the call
\* throws or returns text that is not JSON) is recovered locally: the step that
\* meets the failure does not end the request with an error answer, the request
\* goes on with the placeholder content.
C25_GeneratorFailureRecovered ==
    [][\A r \in Requests :
          (req[r].kind \in GatedKinds /\ req[r].pc = "generate" /\ StepOf(r)
           /\ req'[r].genFailed) =>
             /\ req'[r].pc # "done"
             /\ req'[r].content.questions = "placeholder"]_vars

\* C26: once a user's record exists no operation changes its created_at or
\* replaces the whole record: every step leaves created_at of an existing record
\* as it is, and a setDoc is made only on a user that has no record.
C26_CreatedAtSetOnce ==
    [][\A r \in Requests :
          LET u == req[r].user IN
          (StepOf(r) /\ u \in Users /\ users[u].exists) =>
             /\ users'[u].created_at = users[u].created_at
             /\ ~(/\ req[r].pc \in {"cuu_set", "info_set", "sub_set"}
                  /\ req'[r].writes # req[r].writes)]_vars

\* C27: every request of a generation-gated endpoint that was answered 201 has
\* exactly one record in quizzes or mock_tests, a request answered 400, 403 or
\* 500 has none, and no step modifies or deletes a record of quizzes or
\* mock_tests: a step leaves the two collections as they are or adds one record.
C27_OneArtifactPerGrant ==
    [][/\ \A r \in Requests :
             LET artifacts == {a \in quizzes' : a.doc_id = r}
                              \cup {a \in mock_tests' : a.doc_id = r}
             IN req'[r].kind \in GatedKinds =>
                   /\ req'[r].status = 201 => Cardinality(artifacts) = 1
                   /\ req'[r].status \in {400, 403, 500} => artifacts = {}
       /\ quizzes \subseteq quizzes' /\ mock_tests \subseteq mock_tests'
       /\ Cardinality(quizzes') + Cardinality(mock_tests')
             <= Cardinality(quizzes) + Cardinality(mock_tests) + 1]_vars

C27_Witness ==
    \E r1, r2 \in Requests :
       /\ r1 # r2
       /\ req[r1].kind = "mock_test" /\ req[r1].status = 201
       /\ req[r2].kind \in {"create_content", "upload_pdf"} /\ req[r2].status = 201
       /\ Cardinality(mock_tests) = 1 /\ Cardinality(quizzes) = 1
       /\ \E a \in mock_tests, b \in quizzes : a.test_id = b.quiz_id

\* C28: every request of a generation-gated endpoint is answered: a request that
\* has arrived is eventually done, provided each call it awaits returns or throws.
\* It is answered once, with 201, 400, 403 or 500: an answered request takes no
\* further step.  It makes at most one content-generator call.
C28_AnsweredOnce ==
    /\ \A r \in Requests : (req[r].pc # "idle") ~> (req[r].pc = "done")
    /\ [][\A r \in Requests : req[r].pc = "done" => req'[r] = req[r]]_vars
    /\ [](\A r \in Requests :
             /\ req[r].pc = "done" => req[r].status \in {201, 400, 403, 500}
             /\ req[r].pc # "done" => req[r].status = 0
             /\ req[r].genCalls <= 1)

C28_Witness ==
    \E r1, r2 \in Requests :
       /\ r1 # r2
       /\ req[r1].pc = "done" /\ req[r1].status = 201 /\ req[r1].genCalls = 1
       /\ req[r2].pc = "done" /\ req[r2].status = 500 /\ req[r2].genCalls = 1
       /\ req[r2].genFailed

\* C29: a subscribe whose write finds a subscription already stored replaces it:
\* the stored plan becomes the requested plan and the stored expiry becomes the
\* expiry the handler computed from its own call time and the plan's term,
\* whatever the stored expiry was.  The new expiry is never later than the time
\* of the write plus the term, so time remaining on the old subscription is not
\* added, and it can be earlier than the old expiry.
C29_SubscribeReplaces ==
    [][\A r \in Requests :
          LET u == req[r].user
              old == users[u]
          IN (/\ req[r].pc = "sub_update" /\ StepOf(r) /\ req'[r].status = 200
              /\ old.subscription_status \in Plans) =>
                /\ users'[u].subscription_status = req[r].plan
                /\ Cardinality(users'[u].subscription_expiry) = 1
                /\ \A x \in users'[u].subscription_expiry :
                      /\ \E t \in 0..now : x = t + PlanMonths(req[r].plan)
                      /\ x <= now + PlanMonths(req[r].plan)
                      /\ \A e \in old.subscription_expiry :
                            e > now => x < e + PlanMonths(req[r].plan)]_vars

\* yearly followed by monthly: the stored expiry moved back from 13 to 2
C29_Witness ==
    \E r1, r2 \in Requests :
       /\ req[r1].kind = "subscribe" /\ req[r1].status = 200
       /\ req[r1].body.subscription_status = "yearly"
       /\ req[r1].body.subscription_expiry = {13}
       /\ req[r2].kind = "subscribe" /\ req[r2].status = 200
       /\ "subscribe" \in req[r2].writes
       /\ req[r2].body.subscription_status = "monthly"
       /\ users[req[r2].user].subscription_status = "monthly"
       /\ users[req[r2].user].subscription_expiry = {2}

\* the number of 201 answers so far: those of the requests whose connection is
\* closed and that of the request just answered
C30_Answered201 ==
    granted + Cardinality({r \in Requests : req[r].pc = "done" /\ req[r].status = 201})

C30_BetweenRequests == \A r \in Requests : req[r].pc \in {"idle", "done"}

\* C30 as stated: requests of one user in sequence, no subscribe, no store
\* failure: at most 10 requests are answered 201, between requests the counter of
\* the user's record is 10 minus the number of 201 answers so far, and every
\* generation request answered after the tenth 201 is answered 403.
C30_TenFreeGenerationsThen403 ==
    /\ C30_Answered201 <= 10
    /\ \A u \in Users :
          (C30_BetweenRequests /\ users[u].exists) => Free(u) = 10 - C30_Answered201
    /\ \A r \in Requests :
          (req[r].pc = "done" /\ granted = 10) => req[r].status = 403

\* C30: requests of one user in sequence, no subscribe, no store failure: at most
\* 10 requests are answered 201; between requests the counter of the user's
\* record, once the record exists, is 10 minus the number of 201 answers so far;
\* every generation request answered after the tenth 201 is answered 403, or 400
\* when its input is rejected, which happens before the usage check and without
\* any write.
C30_TenFreeGenerations ==
    /\ C30_Answered201 <= 10
    /\ \A u \in Users :
          (C30_BetweenRequests /\ users[u].exists) => Free(u) = 10 - C30_Answered201
    /\ \A r \in Requests :
          (req[r].pc = "done" /\ granted = 10) =>
             /\ req[r].status \in {400, 403}
             /\ req[r].status = 400 => ~req[r].usage.checked /\ req[r].writes = {}
             /\ req[r].status = 403 => req[r].body.remaining_free = 0

C30_Witness ==
    \E r \in Requests, u \in Users :
       /\ granted = 10
       /\ req[r].pc = "done" /\ req[r].status = 403 /\ req[r].user = u
       /\ Free(u) = 0
       /\ Cardinality(quizzes) = 10

\* C31: a completed subscription is not lost: while the stored record carries the
\* plan and the expiry that a subscribe answered with 200, and the expiry is still
\* ahead, no step other than a write of another subscribe changes the stored plan
\* or expiry, whatever checkUserUsage and subscription-info requests are in
\* progress for the user.
C31_SubscriptionNotLost ==
    [][\A u \in Users :
          (/\ \E r \in Requests :
                 /\ req[r].pc = "done" /\ req[r].kind = "subscribe"
                 /\ req[r].user = u /\ req[r].status = 200
                 /\ users[u].exists
                 /\ users[u].subscription_status = req[r].body.subscription_status
                 /\ users[u].subscription_expiry = req[r].body.subscription_expiry
           /\ \A e \in users[u].subscription_expiry : now < e
           /\ ~\E r \in Requests :
                 req[r].pc \in {"sub_set", "sub_update"} /\ StepOf(r)) =>
             /\ users'[u].subscription_status = users[u].subscription_status
             /\ users'[u].subscription_expiry = users[u].subscription_expiry]_vars

\* C32: once a user's record exists, no step of any request, in any interleaving,
\* stores a free_generations_remaining higher than the one stored before it.
C32_CounterNeverIncreases ==
    [][\A u \in Users : users[u].exists => Free(u)' <= Free(u)]_vars

\* C33: in every reachable state the free_generations_remaining of every user
\* record is in 0..10: no write, in any interleaving, stores a value below 0 or
\* above the initial quota.
C33_CounterInRange ==
    \A u \in Users : Free(u) \in 0..InitialFreeGenerations

\* the record was created again, with the quota, after a generation was charged
C33_Witness ==
    \E r \in Requests :
       /\ req[r].pc = "done" /\ req[r].status = 201 /\ "decrement" \in req[r].writes
       /\ users[req[r].user].exists
       /\ Free(req[r].user) = InitialFreeGenerations

\* C34: the two readers agree: whatever record the subscription-info GET reads and
\* whenever it reads it (the expiry equal to the time of the read and a plan
\* stored without expiry included), it takes the branch checkUserUsage takes on
\* that record at that time (create, normalize, or leave the record as it is), so
\* that both leave the same record behind, and the subscription status it answers
\* with is the subscriptionStatus checkUserUsage returns.
C34_ReadersAgree ==
    [][\A r \in Requests :
          LET d == users[req[r].user] IN
          (req[r].pc = "info_get" /\ StepOf(r) /\ req'[r].status # 500) =>
             /\ req'[r].pc = "info_set" <=> checkUserUsage_branch(d, now) = "create"
             /\ req'[r].pc = "info_update" <=> checkUserUsage_branch(d, now) = "normalize"
             /\ req'[r].pc = "done" =>
                   req'[r].body.subscription_status =
                      checkUserUsage_return(d, now).subscriptionStatus]_vars

\* C35: every quiz_id / test_id answered in a 201 identifies exactly one artifact
\* record: no two records of quizzes share a quiz_id, no two records of mock_tests
\* share a test_id, and the records that a query by the answered id matches (the
\* first of which GET /api/quiz/:quizId returns) are the one record the answering
\* request created.
C35_IdsIdentifyOneArtifact ==
    /\ \A a, b \in quizzes : a.quiz_id = b.quiz_id => a = b
    /\ \A a, b \in mock_tests : a.test_id = b.test_id => a = b
    /\ \A r \in Requests :
          (req[r].pc = "done" /\ req[r].status = 201) =>
             IF req[r].kind = "mock_test"
             THEN {a \in mock_tests : a.test_id = req[r].body.id}
                     = {a \in mock_tests : a.doc_id = r}
             ELSE {a \in quizzes : a.quiz_id = req[r].body.id}
                     = {a \in quizzes : a.doc_id = r}

\* C36: mock-test PDF files and mock_tests records correspond one to one: in every
\* reachable state the pdf_path of every mock_tests record names a completely
\* written file, and, once the requests in progress have been answered, every
\* file in the uploads directory has a mock_tests record naming it, also when the
\* write of the record failed.
C36_FilesMatchRecords ==
    /\ \A m \in mock_tests : [name |-> m.pdf_path, complete |-> TRUE] \in files
    /\ (\A r \in Requests : req[r].pc \in {"idle", "done"}) =>
          \A f \in files : \E m \in mock_tests : m.pdf_path = f.name

====
